---- MODULE Spec2Model ----
(***************************************************************************)
(* Model of the airfoil shape-optimization scripts 497project.py and       *)
(* 497project_COMBO.py.                                                    *)
(*                                                                         *)
(* The scripts are sequential: a setup part builds the aero problem, the   *)
(* geometry and the optimization problem descriptor, then the optimizer    *)
(* is called and drives the callbacks cruiseFuncs, cruiseFuncsSens and     *)
(* objCon.  The external libraries (flow solver, geometry, optimizer) are  *)
(* the environment: their results are drawn from small sets.               *)
(*                                                                         *)
(* Coefficients cl, cd, cm and the targets mycl, mycm are kept in          *)
(* hundredths (0.5 is 50, 0.03 is 3) so that the arithmetic is exact.      *)
(***************************************************************************)
EXTENDS Integers, Sequences, FiniteSets, TLC

(* ---------------- bounds of the model ---------------- *)

\* objCon calls (objective evaluations) in one execution of a script
MaxCalls == 2

\* trial design points the optimizer may propose in a run
MaxTrial == 2

\* CST coefficients of the linear-constraint check range over -MaxCoef .. MaxCoef
MaxCoef == 1

\* target lift coefficients 0 .. MaxTarget (hundredths) of the set-up check
MaxTarget == 3

(* ---------------- program constants ---------------- *)

\* mycl = 0.5, in hundredths
mycl == 50

\* mycm = 0.03, in hundredths
mycm == 3

\* number of CST coefficients on each surface
nCoeff == 4

\* bounds of the angle-of-attack design variable
alphaLower == -10

alphaUpper == 10

\* alpha = 0.0 if mycl == 0.0 else 1.0, for a target lift cl
initialAlpha(cl) == IF cl = 0 THEN 0 ELSE 1

alpha == initialAlpha(mycl)

\* AeroProblem(alpha=alpha if mycl != 0.0 else 0.0)
apAlpha(cl) == IF cl # 0 THEN initialAlpha(cl) ELSE 0

\* the angle of attack made a design variable whatever the target lift
apDVs_always(cl, a) ==
    {[name |-> "alpha", value |-> a, lower |-> alphaLower,
      upper |-> alphaUpper]}

\* if mycl != 0.0: ap.addDV("alpha", value=ap.alpha, lower=-10.0, upper=10.0)
apDVs(cl, a) ==
    IF cl # 0
    THEN {[name |-> "alpha", value |-> a, lower |-> alphaLower,
           upper |-> alphaUpper]}
    ELSE {}

(* ---------------- dictionaries ---------------- *)

EmptyDict == [k \in {} |-> 0]

Has(d, k) == k \in DOMAIN d

Put(d, k, v) == [j \in (DOMAIN d) \cup {k} |-> IF j = k THEN v ELSE d[j]]

Scripts == {"497project", "497project_COMBO"}

\* MPI.COMM_WORLD.rank: rank 0, or another rank
Ranks == {0, 1}

\* the optimizer sections of a script, in source order
Sections(s) ==
    IF s = "497project" THEN <<"SLSQP">> ELSE <<"SLSQP", "CONMIN", "IPOPT">>

\* ap[key] of the AeroProblem named "fc" is the functional name "fc_" + key
apName == "fc"

apKey(key) ==
    CASE key = "cl" -> "fc_cl"
      [] key = "cd" -> "fc_cd"
      [] key = "cm" -> "fc_cm"

\* "cl_con_" + ap.name and "cm_con_" + ap.name
clConName == "cl_con_fc"

cmConName == "cm_con_fc"

\* the history lists a section creates
BufferNames(s, b) ==
    IF s = "497project"
    THEN {"obj_vals_SLSQP", "cl_con_vals_SLSQP", "cm_con_vals_SLSQP"}
    ELSE CASE b = "SLSQP" -> {"obj_vals_SLSQP", "cl_con_vals_SLSQP",
                              "cm_con_vals_SLSQP", "fc_cd_vals_SLSQP"}
           [] b = "CONMIN" -> {"obj_vals_CONMIN", "cl_con_vals_CONMIN",
                               "cm_con_vals_CONMIN", "fc_cd_vals_CONMIN"}
           [] b = "IPOPT" -> {"obj_vals_IPOPT", "cl_con_vals_IPOPT",
                              "cm_con_vals_IPOPT", "fc_cd_vals_IPOPT"}

Append2(bufs, name, v) == [bufs EXCEPT ![name] = Append(@, v)]

(* ---------------- objCon, one definition per section ---------------- *)

\* funcs[target] = funcs[from] - minus
SetStmt(target, from, minus) ==
    [op |-> "set", target |-> target, from |-> from, minus |-> minus]

\* target.append(funcs[from])
AppendStmt(target, from) ==
    [op |-> "append", target |-> target, from |-> from, minus |-> 0]

\* if printOK: print("funcs in obj:", funcs)
PrintStmt == [op |-> "print", target |-> "", from |-> "", minus |-> 0]

\* one statement of objCon: a look-up of a missing key raises KeyError and
\* leaves everything as the statements before it made it
ExecStmt(s, st, printOK) ==
    CASE s.op = "set" ->
           IF Has(st.funcs, s.from)
           THEN [st EXCEPT !.funcs = Put(@, s.target, st.funcs[s.from] - s.minus)]
           ELSE [st EXCEPT !.raised = TRUE]
      [] s.op = "append" ->
           IF Has(st.funcs, s.from)
           THEN [st EXCEPT !.bufs = Append2(@, s.target, st.funcs[s.from])]
           ELSE [st EXCEPT !.raised = TRUE]
      [] s.op = "print" ->
           IF printOK THEN [st EXCEPT !.out = DOMAIN st.funcs] ELSE st

RECURSIVE ExecFrom(_, _, _, _)
\* the statements from the i-th on, in order, until one raises
ExecFrom(stmts, i, st, printOK) ==
    IF i > Len(stmts) \/ st.raised
    THEN st
    ELSE ExecFrom(stmts, i + 1, ExecStmt(stmts[i], st, printOK), printOK)

\* the body of objCon run on a dictionary and the history lists: the
\* dictionary and lists it leaves, what it prints, whether it raised
Exec(stmts, funcs, printOK, bufs) ==
    ExecFrom(stmts, 1,
             [funcs |-> funcs, bufs |-> bufs, out |-> {}, raised |-> FALSE],
             printOK)

\* objCon of 497project.py that records nothing when the failure flag is set
objCon_497project_skipOnFail(funcs, printOK, bufs) ==
    LET r == Exec(<<SetStmt("obj", apKey("cd"), 0),
                    SetStmt(clConName, apKey("cl"), mycl),
                    SetStmt(cmConName, apKey("cm"), mycm),
                    AppendStmt("obj_vals_SLSQP", "obj"),
                    AppendStmt("cl_con_vals_SLSQP", clConName),
                    AppendStmt("cm_con_vals_SLSQP", cmConName),
                    PrintStmt>>,
                  funcs, printOK, bufs)
    IN  [r EXCEPT !.bufs = IF Has(funcs, "fail") /\ funcs["fail"] THEN bufs ELSE @]

\* objCon of 497project.py that appends the objective before the later look-ups
objCon_497project_appendEarly(funcs, printOK, bufs) ==
    Exec(<<SetStmt("obj", apKey("cd"), 0),
           AppendStmt("obj_vals_SLSQP", "obj"),
           SetStmt(clConName, apKey("cl"), mycl),
           SetStmt(cmConName, apKey("cm"), mycm),
           AppendStmt("cl_con_vals_SLSQP", clConName),
           AppendStmt("cm_con_vals_SLSQP", cmConName),
           PrintStmt>>,
         funcs, printOK, bufs)

\* 497project.py: three history lists
objCon_497project(funcs, printOK, bufs) ==
    Exec(<<SetStmt("obj", apKey("cd"), 0),
           SetStmt(clConName, apKey("cl"), mycl),
           SetStmt(cmConName, apKey("cm"), mycm),
           AppendStmt("obj_vals_SLSQP", "obj"),
           AppendStmt("cl_con_vals_SLSQP", clConName),
           AppendStmt("cm_con_vals_SLSQP", cmConName),
           PrintStmt>>,
         funcs, printOK, bufs)

\* 497project_COMBO.py, SLSQP section: the moment residual subtracts mycl
objCon_SLSQP(funcs, printOK, bufs) ==
    Exec(<<SetStmt("obj", apKey("cd"), 0),
           SetStmt(clConName, apKey("cl"), mycl),
           SetStmt(cmConName, apKey("cm"), mycl),
           AppendStmt("obj_vals_SLSQP", "obj"),
           AppendStmt("cl_con_vals_SLSQP", clConName),
           AppendStmt("cm_con_vals_SLSQP", cmConName),
           AppendStmt("fc_cd_vals_SLSQP", "fc_cd"),
           PrintStmt>>,
         funcs, printOK, bufs)

\* objCon of the CONMIN section with the lift residual appended to the moment list
objCon_CONMIN_wrongList(funcs, printOK, bufs) ==
    Exec(<<SetStmt("obj", apKey("cd"), 0),
           SetStmt(clConName, apKey("cl"), mycl),
           SetStmt(cmConName, apKey("cm"), mycm),
           AppendStmt("obj_vals_CONMIN", "obj"),
           AppendStmt("cl_con_vals_CONMIN", clConName),
           AppendStmt("cm_con_vals_CONMIN", clConName),
           AppendStmt("fc_cd_vals_CONMIN", "fc_cd"),
           PrintStmt>>,
         funcs, printOK, bufs)

\* objCon of the CONMIN section that records only when it prints
objCon_CONMIN_printGate(funcs, printOK, bufs) ==
    LET r == Exec(<<SetStmt("obj", apKey("cd"), 0),
                    SetStmt(clConName, apKey("cl"), mycl),
                    SetStmt(cmConName, apKey("cm"), mycm),
                    AppendStmt("obj_vals_CONMIN", "obj"),
                    AppendStmt("cl_con_vals_CONMIN", clConName),
                    AppendStmt("cm_con_vals_CONMIN", cmConName),
                    AppendStmt("fc_cd_vals_CONMIN", "fc_cd"),
                    PrintStmt>>,
                  funcs, printOK, bufs)
    IN  [r EXCEPT !.bufs = IF printOK THEN @ ELSE bufs]

\* 497project_COMBO.py, CONMIN section
objCon_CONMIN(funcs, printOK, bufs) ==
    Exec(<<SetStmt("obj", apKey("cd"), 0),
           SetStmt(clConName, apKey("cl"), mycl),
           SetStmt(cmConName, apKey("cm"), mycm),
           AppendStmt("obj_vals_CONMIN", "obj"),
           AppendStmt("cl_con_vals_CONMIN", clConName),
           AppendStmt("cm_con_vals_CONMIN", cmConName),
           AppendStmt("fc_cd_vals_CONMIN", "fc_cd"),
           PrintStmt>>,
         funcs, printOK, bufs)

\* objCon of the IPOPT section with the objective taken from the lift entry
objCon_IPOPT_objFromCl(funcs, printOK, bufs) ==
    Exec(<<SetStmt("obj", apKey("cl"), 0),
           SetStmt(clConName, apKey("cl"), mycl),
           SetStmt(cmConName, apKey("cm"), mycm),
           AppendStmt("obj_vals_IPOPT", "obj"),
           AppendStmt("cl_con_vals_IPOPT", clConName),
           AppendStmt("cm_con_vals_IPOPT", cmConName),
           AppendStmt("fc_cd_vals_IPOPT", "fc_cd"),
           PrintStmt>>,
         funcs, printOK, bufs)

\* objCon of the IPOPT section still appending the objective to the CONMIN list
objCon_IPOPT_staleList(funcs, printOK, bufs) ==
    Exec(<<SetStmt("obj", apKey("cd"), 0),
           SetStmt(clConName, apKey("cl"), mycl),
           SetStmt(cmConName, apKey("cm"), mycm),
           AppendStmt("obj_vals_CONMIN", "obj"),
           AppendStmt("cl_con_vals_IPOPT", clConName),
           AppendStmt("cm_con_vals_IPOPT", cmConName),
           AppendStmt("fc_cd_vals_IPOPT", "fc_cd"),
           PrintStmt>>,
         funcs, printOK, bufs)

\* 497project_COMBO.py, IPOPT section
objCon_IPOPT(funcs, printOK, bufs) ==
    Exec(<<SetStmt("obj", apKey("cd"), 0),
           SetStmt(clConName, apKey("cl"), mycl),
           SetStmt(cmConName, apKey("cm"), mycm),
           AppendStmt("obj_vals_IPOPT", "obj"),
           AppendStmt("cl_con_vals_IPOPT", clConName),
           AppendStmt("cm_con_vals_IPOPT", cmConName),
           AppendStmt("fc_cd_vals_IPOPT", "fc_cd"),
           PrintStmt>>,
         funcs, printOK, bufs)

\* the function the name objCon is bound to while section b of script s runs
objCon(s, b, funcs, printOK, bufs) ==
    IF s = "497project"
    THEN objCon_497project(funcs, printOK, bufs)
    ELSE CASE b = "SLSQP" -> objCon_SLSQP(funcs, printOK, bufs)
           [] b = "CONMIN" -> objCon_CONMIN(funcs, printOK, bufs)
           [] b = "IPOPT" -> objCon_IPOPT(funcs, printOK, bufs)

(* ---------------- design vectors ---------------- *)

\* the k-th trial point of the optimizer
TrialPoint(k) ==
    [alpha |-> k,
     upper_shape |-> [i \in 1..nCoeff |-> k],
     lower_shape |-> [i \in 1..nCoeff |-> 0 - k]]

TrialPoints == {TrialPoint(k) : k \in 1..MaxTrial}

\* the design the geometry and the aero problem hold before any callback
InitialDesign ==
    [alpha |-> alpha,
     upper_shape |-> [i \in 1..nCoeff |-> 0],
     lower_shape |-> [i \in 1..nCoeff |-> 0]]

CoefVals == (0 - MaxCoef)..MaxCoef

DesignVectors ==
    [alpha : {alphaLower, alphaUpper},
     upper_shape : [1..nCoeff -> CoefVals],
     lower_shape : [1..nCoeff -> CoefVals]]

(* ---------------- the linear constraint first_cst_coeff_match ---------------- *)

\* the Jacobian row with every coefficient set
jac_ones == [i \in 1..nCoeff |-> 1]

\* jac = np.zeros((1, nCoeff)); jac[0, 0] = 1.0
jac == [i \in 1..nCoeff |-> IF i = 1 THEN 1 ELSE 0]

first_cst_coeff_match ==
    [name |-> "first_cst_coeff_match", lower |-> 0, upper |-> 0,
     linear |-> TRUE, wrt |-> <<"upper_shape", "lower_shape">>,
     jac |-> [upper_shape |-> jac, lower_shape |-> jac]]

RECURSIVE Dot(_, _, _)
Dot(row, vec, n) ==
    IF n = 0 THEN 0 ELSE row[n] * vec[n] + Dot(row, vec, n - 1)

RECURSIVE LinearSum(_, _, _)
LinearSum(con, xv, g) ==
    IF g = 0 THEN 0
    ELSE Dot(con.jac[con.wrt[g]], xv[con.wrt[g]], nCoeff)
         + LinearSum(con, xv, g - 1)

\* value of a linear constraint: the sum over its wrt groups of jac . x
LinearConValue(con, xv) == LinearSum(con, xv, Len(con.wrt))

LinearConFeasible(con, xv) ==
    /\ con.lower <= LinearConValue(con, xv)
    /\ LinearConValue(con, xv) <= con.upper

(* ---------------- the script, statement by statement ---------------- *)

\* the section with the last constraint declared after the optimizer ran
Program_lateCon ==
    <<"setup", "buffers", "Optimization", "addObj", "ap.addVariablesPyOpt",
      "DVGeo.addVariablesPyOpt", "DVCon.addConstraintsPyOpt", "addCon_cl",
      "addCon_cm", "register", "opt", "addCon_first_cst", "post">>

\* the top-level statements of one optimizer section, in source order
Program ==
    <<"setup", "buffers", "Optimization", "addObj", "ap.addVariablesPyOpt",
      "DVGeo.addVariablesPyOpt", "DVCon.addConstraintsPyOpt", "addCon_cl",
      "addCon_cm", "addCon_first_cst", "register", "opt", "post">>

pcOpt == CHOOSE i \in DOMAIN Program : Program[i] = "opt"

pcPlot == Len(Program) + 1

pcDone == Len(Program) + 2

DVConKeys ==
    {"DVCon1_volume_constraint_0", "DVCon1_thickness_constraints_0",
     "DVCon1_leradius_constraints_0"}

\* the names a declaring statement adds to the optimization problem
Declared(stmt, a) ==
    CASE stmt = "addObj" -> <<"obj">>
      [] stmt = "ap.addVariablesPyOpt" ->
            IF \E d \in a.dvs : d.name = "alpha" THEN <<"alpha_fc">> ELSE <<>>
      [] stmt = "DVGeo.addVariablesPyOpt" -> <<"upper_shape", "lower_shape">>
      [] stmt = "DVCon.addConstraintsPyOpt" ->
            <<"DVCon1_volume_constraint_0", "DVCon1_thickness_constraints_0",
              "DVCon1_leradius_constraints_0">>
      [] stmt = "addCon_cl" -> <<clConName>>
      [] stmt = "addCon_cm" -> <<cmConName>>
      [] stmt = "addCon_first_cst" -> <<first_cst_coeff_match.name>>

DeclStatements ==
    {"addObj", "ap.addVariablesPyOpt", "DVGeo.addVariablesPyOpt",
     "DVCon.addConstraintsPyOpt", "addCon_cl", "addCon_cm",
     "addCon_first_cst"}

\* cruiseFuncs with the flow solved before the aero problem takes x
cfOrder_solveEarly ==
    <<"print_x", "DVGeo.setDesignVars", "CFDSolver", "ap.setDesignVars",
      "funcs", "DVCon.evalFunctions", "CFDSolver.evalFunctions",
      "checkSolutionFailure", "print_funcs", "return">>

\* cruiseFuncs with the failure check made before the dictionary is rebuilt
cfOrder_checkEarly ==
    <<"print_x", "DVGeo.setDesignVars", "ap.setDesignVars", "CFDSolver",
      "checkSolutionFailure", "funcs", "DVCon.evalFunctions",
      "CFDSolver.evalFunctions", "print_funcs", "return">>

\* the statements of cruiseFuncs, in source order
cfOrder ==
    <<"print_x", "DVGeo.setDesignVars", "ap.setDesignVars", "CFDSolver",
      "funcs", "DVCon.evalFunctions", "CFDSolver.evalFunctions",
      "checkSolutionFailure", "print_funcs", "return">>

\* the statements of cruiseFuncsSens, in source order
csOrder ==
    <<"funcsSens", "DVCon.evalFunctionsSens", "CFDSolver.evalFunctionsSens",
      "checkAdjointFailure", "print_sens", "return">>

\* the dictionary of the previous evaluation kept
NewFuncs_reuse(old) == old

\* funcs = {} at the start of every evaluation
NewFuncs(old) == EmptyDict

\* return funcs
cruiseFuncsReturn(f) == f

\* return funcsSens
cruiseFuncsSensReturn(f) == f

\* the keys whose values the print loop of cruiseFuncs prints
cruiseFuncsPrinted(f, r) ==
    IF r = 0 THEN (DOMAIN f) \ {"DVCon1_thickness_constraints_0"} ELSE {}

\* evalFunc = ["fc_cd", "fc_cl", "fc_cm", "fail"]
evalFunc == {"fc_cd", "fc_cl", "fc_cm", "fail"}

Backends == {"SLSQP", "CONMIN", "IPOPT"}

VARIABLES
    script,      \* which of the two scripts runs
    cl_target,   \* the value the script gives mycl
    rank,        \* MPI.COMM_WORLD.rank of this process
    sec,         \* index of the optimizer section being executed
    pc,          \* index in Program of the next statement
    run,         \* "idle", or "running" while opt(optProb, MP.sens) executes
    ap,          \* the AeroProblem: initial alpha, its design variables, the applied design
    geo,         \* the design held by DVGeo
    optProbs,    \* every Optimization object created: declarations and solver calls
    optProb,     \* index in optProbs the name optProb is bound to, 0 if unbound
    buffers,     \* the history lists, by variable name
    iters,       \* optimizer iterations completed, by backend
    evals,       \* objective evaluations in the current iteration
    sensDone,    \* the gradient of the current iteration was evaluated
    who,         \* callback in progress: "none", "obj" or "sens"
    cb,          \* index of the next statement of the callback
    x,           \* the design vector passed to the callback
    flow,        \* the flow solver's state: solved design, coefficients, failure flags
    funcs,       \* the functional dictionary of cruiseFuncs / objCon
    funcsSens,   \* the sensitivity dictionary of cruiseFuncsSens
    trace,       \* statements executed by the callback in progress
    printed,     \* dictionary keys whose values were printed by the callback in progress
    hist,        \* what MP.obj returned to the optimizer, by backend
    linCon       \* value of first_cst_coeff_match the optimizer computed for x

vars ==
    <<script, cl_target, rank, sec, pc, run, ap, geo, optProbs, optProb, buffers, iters,
      evals, sensDone, who, cb, x, flow, funcs, funcsSens, trace, printed,
      hist, linCon>>

scriptVars == <<script, cl_target, rank>>

setupVars == <<ap, geo, optProbs, optProb>>

solverVars == <<iters, evals, sensDone>>

cbVars == <<who, cb, x, flow, funcs, funcsSens, trace, printed>>

NoFlow ==
    [solved |-> FALSE, x |-> InitialDesign, cl |-> 0, cd |-> 0, cm |-> 0,
     solveFailed |-> FALSE, adjointFailed |-> FALSE]

NoLinCon == [set |-> FALSE, value |-> 0, feasible |-> FALSE]

\* the optimizer evaluates a linear constraint from its Jacobian
EvalLinCon(con, xv) ==
    [set |-> TRUE, value |-> LinearConValue(con, xv),
     feasible |-> LinearConFeasible(con, xv)]

backend == Sections(script)[sec]

stmt == IF pc <= Len(Program) THEN Program[pc] ELSE "none"

RECURSIVE SumLen(_, _)
SumLen(h, S) ==
    IF S = {} THEN 0
    ELSE LET b == CHOOSE e \in S : TRUE
         IN Len(h[b]) + SumLen(h, S \ {b})

Init ==
    /\ script \in Scripts
    /\ cl_target = mycl
    /\ rank \in Ranks
    /\ sec = 1
    /\ pc = 1
    /\ run = "idle"
    /\ ap = [name |-> apName, alpha |-> 0, dvs |-> {}, x |-> InitialDesign]
    /\ geo = InitialDesign
    /\ optProbs = <<>>
    /\ optProb = 0
    /\ buffers = EmptyDict
    /\ iters = [b \in Backends |-> 0]
    /\ evals = 0
    /\ sensDone = FALSE
    /\ who = "none"
    /\ cb = 0
    /\ x = InitialDesign
    /\ flow = NoFlow
    /\ funcs = EmptyDict
    /\ funcsSens = EmptyDict
    /\ trace = <<>>
    /\ printed = {}
    /\ hist = [b \in Backends |-> <<>>]
    /\ linCon = NoLinCon

(* ---- setup statements ---- *)

\* parameters, MP, CFDSolver, ap = AeroProblem(...), ap.addDV, DVGeo, DVCon
Setup ==
    /\ stmt = "setup" /\ run = "idle"
    /\ ap' = [name |-> apName,
              alpha |-> apAlpha(cl_target),
              dvs |-> apDVs(cl_target, apAlpha(cl_target)),
              x |-> InitialDesign]
    /\ geo' = InitialDesign
    /\ flow' = NoFlow
    /\ pc' = pc + 1
    /\ UNCHANGED <<scriptVars, sec, run, optProbs, optProb, buffers,
                   solverVars, who, cb, x, funcs, funcsSens, trace, printed,
                   hist, linCon>>

\* obj_vals_X = []; cl_con_vals_X = []; ... and def objCon
DefineBuffers ==
    /\ stmt = "buffers"
    /\ buffers' = [n \in (DOMAIN buffers) \cup BufferNames(script, backend) |->
                     IF n \in BufferNames(script, backend) THEN <<>>
                     ELSE buffers[n]]
    /\ pc' = pc + 1
    /\ UNCHANGED <<scriptVars, sec, run, setupVars, solverVars, cbVars, hist,
                   linCon>>

\* optProb = Optimization("opt", MP.obj)
CreateOptProb ==
    /\ stmt = "Optimization"
    /\ optProbs' = Append(optProbs, [decls |-> <<>>, runs |-> 0])
    /\ optProb' = Len(optProbs) + 1
    /\ pc' = pc + 1
    /\ UNCHANGED <<scriptVars, sec, run, ap, geo, buffers, solverVars, cbVars,
                   hist, linCon>>

\* optProb.addObj / addVariablesPyOpt / addConstraintsPyOpt / addCon
AddDeclaration ==
    /\ stmt \in DeclStatements
    /\ optProb \in DOMAIN optProbs
    /\ optProbs' = [optProbs EXCEPT
                      ![optProb].decls = @ \o Declared(stmt, ap)]
    /\ pc' = pc + 1
    /\ UNCHANGED <<scriptVars, sec, run, ap, geo, optProb, buffers,
                   solverVars, cbVars, hist, linCon>>

\* MP.setProcSetObjFunc, setProcSetSensFunc, setObjCon, setOptProb
RegisterCallbacks ==
    /\ stmt = "register"
    /\ pc' = pc + 1
    /\ UNCHANGED <<scriptVars, sec, run, setupVars, buffers, solverVars,
                   cbVars, hist, linCon>>

\* sol = opt(optProb, MP.sens, storeHistory=...): the optimizer starts
RunOptimizer ==
    /\ stmt = "opt" /\ run = "idle"
    /\ optProb \in DOMAIN optProbs
    /\ optProbs' = [optProbs EXCEPT ![optProb].runs = @ + 1]
    /\ run' = "running"
    /\ iters' = [iters EXCEPT ![backend] = 0]
    /\ evals' = 0
    /\ sensDone' = FALSE
    /\ UNCHANGED <<scriptVars, sec, pc, ap, geo, optProb, buffers, cbVars,
                   hist, linCon>>

(* ---- the optimizer: it calls MP.obj and MP.sens as it sees fit ---- *)

\* The flow solution is a function of the design: the same design gives the
\* same coefficients.  The first trial point meets the lift target, the last
\* one the moment target.
FlowCoefficients(design) ==
    [cl |-> mycl + (design.alpha - 1),
     cd |-> design.upper_shape[1],
     cm |-> mycm + (MaxTrial - design.alpha)]

\* MP.obj(x): the optimizer asks for the functionals at x
SolverCallObj ==
    /\ run = "running" /\ who = "none"
    /\ SumLen(hist, Backends) < MaxCalls
    /\ \E xv \in TrialPoints :
          /\ x' = xv
          /\ linCon' = EvalLinCon(first_cst_coeff_match, xv)
    /\ who' = "obj"
    /\ cb' = 1
    /\ trace' = <<>>
    /\ printed' = {}
    /\ UNCHANGED <<scriptVars, sec, pc, run, setupVars, buffers, solverVars,
                   flow, funcs, funcsSens, hist>>

\* MP.sens(x, funcs): the optimizer asks for the sensitivities
SolverCallSens ==
    /\ run = "running" /\ who = "none"
    /\ evals >= 1 /\ ~sensDone
    /\ \E xv \in TrialPoints : x' = xv
    /\ who' = "sens"
    /\ cb' = 1
    /\ trace' = <<>>
    /\ printed' = {}
    /\ UNCHANGED <<scriptVars, sec, pc, run, setupVars, buffers, solverVars,
                   flow, funcs, funcsSens, hist, linCon>>

\* the optimizer closes an iteration; it made at least one evaluation in it
SolverEndIteration ==
    /\ run = "running" /\ who = "none"
    /\ evals >= 1
    /\ iters' = [iters EXCEPT ![backend] = @ + 1]
    /\ evals' = 0
    /\ sensDone' = FALSE
    /\ UNCHANGED <<scriptVars, sec, pc, run, setupVars, buffers, cbVars,
                   hist, linCon>>

\* opt(...) returns the solution; the optimizer's working data is dropped
SolverReturn ==
    /\ run = "running" /\ who = "none"
    /\ evals = 0
    /\ run' = "idle"
    /\ pc' = pc + 1
    /\ x' = InitialDesign
    /\ funcs' = EmptyDict
    /\ funcsSens' = EmptyDict
    /\ trace' = <<>>
    /\ printed' = {}
    /\ linCon' = NoLinCon
    /\ UNCHANGED <<scriptVars, sec, setupVars, buffers, solverVars, who, cb,
                   flow, hist>>

(* ---- cruiseFuncs(x) ---- *)

cfAt(name) == who = "obj" /\ cb <= Len(cfOrder) /\ cfOrder[cb] = name

cfStep(name) ==
    /\ cfAt(name)
    /\ cb' = cb + 1
    /\ trace' = Append(trace, name)
    /\ UNCHANGED <<scriptVars, sec, pc, run, optProbs, optProb, buffers,
                   solverVars, who, x, funcsSens, hist, linCon>>

\* print(x)
cf_print_x ==
    /\ cfStep("print_x")
    /\ printed' = printed \cup {"x"}
    /\ UNCHANGED <<ap, geo, flow, funcs>>

\* DVGeo.setDesignVars(x)
cf_setDVGeo ==
    /\ cfStep("DVGeo.setDesignVars")
    /\ geo' = x
    /\ UNCHANGED <<ap, flow, funcs, printed>>

\* ap.setDesignVars(x)
cf_setAP ==
    /\ cfStep("ap.setDesignVars")
    /\ ap' = [ap EXCEPT !.x = x]
    /\ UNCHANGED <<geo, flow, funcs, printed>>

\* CFDSolver(ap): the flow is solved for the geometry and aero problem as they are
cf_CFDSolver ==
    /\ cfStep("CFDSolver")
    /\ \E f \in BOOLEAN :
          LET design == [alpha |-> ap.x.alpha,
                         upper_shape |-> geo.upper_shape,
                         lower_shape |-> geo.lower_shape]
              o == FlowCoefficients(design)
          IN  flow' = [solved |-> TRUE, x |-> design,
                       cl |-> o.cl, cd |-> o.cd, cm |-> o.cm,
                       solveFailed |-> f, adjointFailed |-> FALSE]
    /\ UNCHANGED <<ap, geo, funcs, printed>>

\* funcs = {}
cf_funcs ==
    /\ cfStep("funcs")
    /\ funcs' = NewFuncs(funcs)
    /\ UNCHANGED <<ap, geo, flow, printed>>

\* a geometric functional of the design held by DVGeo
DVConValue(g) == g.upper_shape[1] - g.lower_shape[1]

\* DVCon.evalFunctions(funcs)
cf_DVConEval ==
    /\ cfStep("DVCon.evalFunctions")
    /\ funcs' = [k \in (DOMAIN funcs) \cup DVConKeys |->
                   IF k \in DVConKeys THEN DVConValue(geo) ELSE funcs[k]]
    /\ UNCHANGED <<ap, geo, flow, printed>>

\* CFDSolver.evalFunctions(ap, funcs): evalFuncs = ["cl", "cd", "cm"]
cf_CFDEval ==
    /\ cfStep("CFDSolver.evalFunctions")
    /\ funcs' = Put(Put(Put(funcs, apKey("cl"), flow.cl),
                        apKey("cd"), flow.cd), apKey("cm"), flow.cm)
    /\ UNCHANGED <<ap, geo, flow, printed>>

\* the solver's check: the flag of this solve, or a flag already set in the dictionary
checkFailure(d, flag) ==
    Put(d, "fail", flag \/ (Has(d, "fail") /\ d["fail"]))

\* CFDSolver.checkSolutionFailure(ap, funcs)
cf_checkSolutionFailure ==
    /\ cfStep("checkSolutionFailure")
    /\ funcs' = checkFailure(funcs, flow.solveFailed)
    /\ UNCHANGED <<ap, geo, flow, printed>>

\* if rank == 0: print every entry but the thickness constraints
cf_print_funcs ==
    /\ cfStep("print_funcs")
    /\ printed' = printed \cup cruiseFuncsPrinted(funcs, rank)
    /\ UNCHANGED <<ap, geo, flow, funcs>>

\* return funcs
cf_return ==
    /\ cfStep("return")
    /\ funcs' = cruiseFuncsReturn(funcs)
    /\ UNCHANGED <<ap, geo, flow, printed>>

\* MP.obj hands the dictionary to objCon and the result to the optimizer; a
\* KeyError raised in objCon ends the script
MPobj_objCon ==
    /\ who = "obj" /\ cb = Len(cfOrder) + 1
    /\ \E printOK \in BOOLEAN :
          LET r == objCon(script, backend, funcs, printOK, buffers)
          IN  /\ funcs' = r.funcs
              /\ buffers' = r.bufs
              /\ printed' = printed \cup r.out
              /\ hist' = IF r.raised THEN hist
                          ELSE [hist EXCEPT ![backend] = Append(@, r.funcs)]
              /\ run' = IF r.raised THEN "raised" ELSE run
    /\ trace' = Append(trace, "objCon")
    /\ who' = "none"
    /\ cb' = 0
    /\ evals' = evals + 1
    /\ UNCHANGED <<scriptVars, sec, pc, setupVars, iters, sensDone, x,
                   flow, funcsSens, linCon>>

(* ---- cruiseFuncsSens(x, funcs) ---- *)

\* derivatives taken at the design the optimizer passes in
sensDesign_arg(xarg, held) == xarg

\* the design the derivatives are taken at: the one the geometry and the
\* solver hold; the body reads neither x nor funcs
sensDesign(xarg, held) == held

csAt(name) == who = "sens" /\ cb <= Len(csOrder) /\ csOrder[cb] = name

csStep(name) ==
    /\ csAt(name)
    /\ trace' = Append(trace, name)
    /\ UNCHANGED <<scriptVars, sec, pc, run, setupVars, buffers, iters,
                   evals, x, funcs, hist, linCon>>

\* funcsSens = {}
cs_funcsSens ==
    /\ csStep("funcsSens")
    /\ funcsSens' = EmptyDict
    /\ cb' = cb + 1
    /\ UNCHANGED <<who, sensDone, flow, printed>>

\* DVCon.evalFunctionsSens(funcsSens): derivatives at the design held by DVGeo
cs_DVConSens ==
    /\ csStep("DVCon.evalFunctionsSens")
    /\ funcsSens' = [k \in (DOMAIN funcsSens) \cup DVConKeys |->
                       IF k \in DVConKeys THEN sensDesign(x, geo)
                       ELSE funcsSens[k]]
    /\ cb' = cb + 1
    /\ UNCHANGED <<who, sensDone, flow, printed>>

\* CFDSolver.evalFunctionsSens(ap, funcsSens): derivatives at the solved design
cs_CFDSens ==
    /\ csStep("CFDSolver.evalFunctionsSens")
    /\ \E f \in BOOLEAN : flow' = [flow EXCEPT !.adjointFailed = f]
    /\ LET at == sensDesign(x, flow.x)
       IN  funcsSens' = Put(Put(Put(funcsSens, apKey("cl"), at),
                                apKey("cd"), at), apKey("cm"), at)
    /\ cb' = cb + 1
    /\ UNCHANGED <<who, sensDone, printed>>

\* CFDSolver.checkAdjointFailure(ap, funcsSens)
cs_checkAdjointFailure ==
    /\ csStep("checkAdjointFailure")
    /\ funcsSens' = checkFailure(funcsSens, flow.adjointFailed)
    /\ cb' = cb + 1
    /\ UNCHANGED <<who, sensDone, flow, printed>>

\* for var in evalFunc: print(funcsSens[var])
cs_print_sens ==
    /\ csStep("print_sens")
    /\ evalFunc \subseteq DOMAIN funcsSens
    /\ printed' = printed \cup evalFunc
    /\ cb' = cb + 1
    /\ UNCHANGED <<who, sensDone, flow, funcsSens>>

\* return funcsSens: MP.sens hands it to the optimizer
cs_return ==
    /\ csStep("return")
    /\ funcsSens' = cruiseFuncsSensReturn(funcsSens)
    /\ who' = "none"
    /\ cb' = 0
    /\ sensDone' = TRUE
    /\ UNCHANGED <<flow, printed>>

(* ---- after the optimizer ---- *)

\* save the final figure; the next section of the COMBO script follows
Postprocess ==
    /\ stmt = "post" /\ run = "idle"
    /\ IF sec < Len(Sections(script))
       THEN sec' = sec + 1 /\ pc' = 1
       ELSE sec' = sec /\ pc' = pcPlot
    /\ UNCHANGED <<scriptVars, run, setupVars, buffers, solverVars, cbVars,
                   hist, linCon>>

\* the iteration-history plots read the history lists
Plot ==
    /\ pc = pcPlot
    /\ pc' = pcDone
    /\ UNCHANGED <<scriptVars, sec, run, setupVars, buffers, solverVars,
                   cbVars, hist, linCon>>

Next ==
    \/ Setup
    \/ DefineBuffers
    \/ CreateOptProb
    \/ AddDeclaration
    \/ RegisterCallbacks
    \/ RunOptimizer
    \/ SolverCallObj
    \/ SolverCallSens
    \/ SolverEndIteration
    \/ SolverReturn
    \/ cf_print_x
    \/ cf_setDVGeo
    \/ cf_setAP
    \/ cf_CFDSolver
    \/ cf_funcs
    \/ cf_DVConEval
    \/ cf_CFDEval
    \/ cf_checkSolutionFailure
    \/ cf_print_funcs
    \/ cf_return
    \/ MPobj_objCon
    \/ cs_funcsSens
    \/ cs_DVConSens
    \/ cs_CFDSens
    \/ cs_checkAdjointFailure
    \/ cs_print_sens
    \/ cs_return
    \/ Postprocess
    \/ Plot

Spec == Init /\ [][Next]_vars

(* ---- the set-up on its own: any target lift coefficient ---- *)

TargetVals == (0..MaxTarget) \cup {mycl}

InitAlpha ==
    /\ script \in Scripts
    /\ cl_target \in TargetVals
    /\ rank \in Ranks
    /\ sec = 1
    /\ pc = 1
    /\ run = "idle"
    /\ ap = [name |-> apName, alpha |-> 0, dvs |-> {}, x |-> InitialDesign]
    /\ geo = InitialDesign
    /\ optProbs = <<>>
    /\ optProb = 0
    /\ buffers = EmptyDict
    /\ iters = [b \in Backends |-> 0]
    /\ evals = 0
    /\ sensDone = FALSE
    /\ who = "none"
    /\ cb = 0
    /\ x = InitialDesign
    /\ flow = NoFlow
    /\ funcs = EmptyDict
    /\ funcsSens = EmptyDict
    /\ trace = <<>>
    /\ printed = {}
    /\ hist = [b \in Backends |-> <<>>]
    /\ linCon = NoLinCon

\* the statements up to the call of the optimizer
NextAlpha ==
    \/ Setup
    \/ DefineBuffers
    \/ CreateOptProb
    \/ AddDeclaration
    \/ RegisterCallbacks

SpecAlpha == InitAlpha /\ [][NextAlpha]_vars

(* ---- the linear constraint on its own: any design vector ---- *)

InitLin ==
    /\ script \in Scripts
    /\ cl_target = mycl
    /\ rank = 0
    /\ sec = 1
    /\ pc = pcOpt
    /\ run = "running"
    /\ ap = [name |-> apName, alpha |-> alpha, dvs |-> apDVs(mycl, alpha),
             x |-> InitialDesign]
    /\ geo = InitialDesign
    /\ optProbs = <<>>
    /\ optProb = 0
    /\ buffers = EmptyDict
    /\ iters = [b \in Backends |-> 0]
    /\ evals = 0
    /\ sensDone = FALSE
    /\ who = "none"
    /\ cb = 0
    /\ x \in DesignVectors
    /\ flow = NoFlow
    /\ funcs = EmptyDict
    /\ funcsSens = EmptyDict
    /\ trace = <<>>
    /\ printed = {}
    /\ hist = [b \in Backends |-> <<>>]
    /\ linCon = NoLinCon

\* the optimizer evaluates first_cst_coeff_match at x
SolverEvalLinCon ==
    /\ ~linCon.set
    /\ linCon' = EvalLinCon(first_cst_coeff_match, x)
    /\ UNCHANGED <<scriptVars, sec, pc, run, setupVars, buffers, solverVars,
                   cbVars, hist>>

NextLin == SolverEvalLinCon

SpecLin == InitLin /\ [][NextLin]_vars

(* ======================= properties ======================= *)

\* cruiseFuncs has executed its return; MP.obj is about to call objCon
cruiseFuncsReturned == who = "obj" /\ cb = Len(cfOrder) + 1

\* cruiseFuncsSens has returned and no other callback has started since
sensReturned ==
    /\ who = "none" /\ Len(trace) > 0
    /\ trace[1] = "funcsSens" /\ trace[Len(trace)] = "return"

InTrace(n) == \E i \in DOMAIN trace : trace[i] = n

\* every occurrence of b in the trace has an earlier occurrence of a
Before(a, b) ==
    \A j \in DOMAIN trace :
        trace[j] = b => \E i \in 1..(j - 1) : trace[i] = a

AllHist == {<<b, i>> \in Backends \X (1..MaxCalls) : i <= Len(hist[b])}

\* the dictionary entry a history list records
BufferKey(n) ==
    CASE n \in {"obj_vals_SLSQP", "obj_vals_CONMIN", "obj_vals_IPOPT"} -> "obj"
      [] n \in {"cl_con_vals_SLSQP", "cl_con_vals_CONMIN",
                "cl_con_vals_IPOPT"} -> "cl_con_fc"
      [] n \in {"cm_con_vals_SLSQP", "cm_con_vals_CONMIN",
                "cm_con_vals_IPOPT"} -> "cm_con_fc"
      [] n \in {"fc_cd_vals_SLSQP", "fc_cd_vals_CONMIN",
                "fc_cd_vals_IPOPT"} -> "fc_cd"

\* C1: in every dictionary objCon returned, whichever objCon definition made
\* it, "obj" equals the cd entry and "cl_con_fc" equals the cl entry minus mycl.
C1_ObjAndLiftResidual ==
    \A p \in AllHist :
        LET d == hist[p[1]][p[2]]
        IN  /\ d["obj"] = d["fc_cd"]
            /\ d["cl_con_fc"] = d["fc_cl"] - mycl

\* C1 witness: the IPOPT objCon of the COMBO script returned a dictionary
\* whose lift is off target.
C1_Witness ==
    /\ script = "497project_COMBO"
    /\ Len(hist["IPOPT"]) >= 1
    /\ hist["IPOPT"][1]["cl_con_fc"] # 0
    /\ hist["IPOPT"][1]["obj"] # hist["IPOPT"][1]["fc_cl"]

\* C2: in every dictionary objCon returned, whichever objCon definition made
\* it, "cm_con_fc" equals the cm entry minus mycm.
C2_MomentResidual ==
    \A p \in AllHist :
        LET d == hist[p[1]][p[2]]
        IN  d["cm_con_fc"] = d["fc_cm"] - mycm

\* C3: the history lists of a run have the same length, that length is the
\* number of completed objCon calls of the run, and their i-th entries are the
\* entries of the dictionary the i-th call returned.
C3_BuffersAligned ==
    \A i \in 1..Len(Sections(script)) :
        LET b == Sections(script)[i]
        IN  \A n \in BufferNames(script, b) :
                Has(buffers, n) =>
                    /\ Len(buffers[n]) = Len(hist[b])
                    /\ \A k \in 1..Len(hist[b]) :
                          buffers[n][k] = hist[b][k][BufferKey(n)]

\* C3 witness: two calls completed in the CONMIN run, with different values.
C3_Witness ==
    /\ script = "497project_COMBO"
    /\ Has(buffers, "fc_cd_vals_CONMIN")
    /\ Len(buffers["fc_cd_vals_CONMIN"]) = 2
    /\ buffers["cm_con_vals_CONMIN"][1] # buffers["cm_con_vals_CONMIN"][2]
    /\ buffers["cm_con_vals_CONMIN"][1] # buffers["cl_con_vals_CONMIN"][1]

\* the optimizer of backend section i has returned
RunFinished(i) == sec > i \/ (sec = i /\ pc > pcOpt)

\* C4: at the end of a run every history list of the run has as many entries
\* as the optimizer made iterations.
C4_OneEntryPerIteration ==
    \A i \in 1..Len(Sections(script)) :
        LET b == Sections(script)[i]
        IN  RunFinished(i) =>
                \A n \in BufferNames(script, b) :
                    Has(buffers, n) /\ Len(buffers[n]) = iters[b]

CFDKeys == {apKey("cl"), apKey("cd"), apKey("cm")}

\* C5: the failure check runs after both evaluators have filled the dictionary
\* and the callback returns that dictionary whole: the returned dictionary
\* holds the flag the solver set (solution failure in cruiseFuncs, adjoint
\* failure in cruiseFuncsSens) and every entry the evaluators wrote.
C5_FlagReturned ==
    /\ cruiseFuncsReturned =>
          /\ Before("DVCon.evalFunctions", "checkSolutionFailure")
          /\ Before("CFDSolver.evalFunctions", "checkSolutionFailure")
          /\ InTrace("checkSolutionFailure")
          /\ Has(funcs, "fail") /\ funcs["fail"] = flow.solveFailed
          /\ \A k \in DVConKeys : Has(funcs, k) /\ funcs[k] = DVConValue(geo)
          /\ Has(funcs, "fc_cl") /\ funcs["fc_cl"] = flow.cl
          /\ Has(funcs, "fc_cd") /\ funcs["fc_cd"] = flow.cd
          /\ Has(funcs, "fc_cm") /\ funcs["fc_cm"] = flow.cm
    /\ sensReturned =>
          /\ Before("DVCon.evalFunctionsSens", "checkAdjointFailure")
          /\ Before("CFDSolver.evalFunctionsSens", "checkAdjointFailure")
          /\ InTrace("checkAdjointFailure")
          /\ Has(funcsSens, "fail") /\ funcsSens["fail"] = flow.adjointFailed
          /\ \A k \in DVConKeys : Has(funcsSens, k) /\ funcsSens[k] = geo
          /\ \A k \in CFDKeys : Has(funcsSens, k) /\ funcsSens[k] = flow.x

\* C5 witness: cruiseFuncs returned after a failed solve.
C5_Witness ==
    /\ cruiseFuncsReturned
    /\ flow.solveFailed
    /\ funcs["fail"]

\* C6: the dictionary cruiseFuncs returns holds the entries written during
\* that call and no other: no "obj", "cl_con_fc" or "cm_con_fc" of an earlier
\* call, and the values are those of this call's geometry and flow solve.
C6_FreshDictionary ==
    cruiseFuncsReturned =>
        /\ DOMAIN funcs = DVConKeys \cup CFDKeys \cup {"fail"}
        /\ ~Has(funcs, "obj")
        /\ ~Has(funcs, clConName)
        /\ ~Has(funcs, cmConName)
        /\ funcs["fc_cd"] = FlowCoefficients(x).cd
        /\ funcs["fc_cl"] = FlowCoefficients(x).cl
        /\ funcs["fc_cm"] = FlowCoefficients(x).cm
        /\ \A k \in DVConKeys : funcs[k] = DVConValue(x)

\* C6 witness: cruiseFuncs returned for the second time in a run, for a design
\* other than that of the first call, whose dictionary objCon had augmented.
C6_Witness ==
    /\ cruiseFuncsReturned
    /\ Len(hist[backend]) >= 1
    /\ Has(hist[backend][1], "obj")
    /\ hist[backend][1]["fc_cd"] # funcs["fc_cd"]

\* C7: within a cruiseFuncs call x is applied to the geometry and the aero
\* problem before the flow solve, the flow solve completes before either
\* evaluator fills the dictionary, and the failure check runs after both
\* evaluators and before the return; the flow solved is that of x.
C7_StatementOrder ==
    who = "obj" =>
        /\ Before("DVGeo.setDesignVars", "CFDSolver")
        /\ Before("ap.setDesignVars", "CFDSolver")
        /\ Before("CFDSolver", "DVCon.evalFunctions")
        /\ Before("CFDSolver", "CFDSolver.evalFunctions")
        /\ Before("DVCon.evalFunctions", "checkSolutionFailure")
        /\ Before("CFDSolver.evalFunctions", "checkSolutionFailure")
        /\ Before("checkSolutionFailure", "return")
        /\ InTrace("CFDSolver") => (geo = x /\ ap.x = x /\ flow.x = x)
        /\ cruiseFuncsReturned =>
              /\ InTrace("DVGeo.setDesignVars") /\ InTrace("ap.setDesignVars")
              /\ InTrace("CFDSolver") /\ InTrace("DVCon.evalFunctions")
              /\ InTrace("CFDSolver.evalFunctions")
              /\ InTrace("checkSolutionFailure")

\* C7 witness: a cruiseFuncs call of the COMBO script ran to its return.
C7_Witness ==
    /\ script = "497project_COMBO"
    /\ cruiseFuncsReturned
    /\ trace[Len(trace)] = "return"
    /\ InTrace("CFDSolver")

\* the dictionary with the failure flag inverted
Flip(d) == [d EXCEPT !["fail"] = ~@]

\* the control flow, the returned dictionary and the history appends do not
\* depend on the failure flag
NoReaction ==
    /\ cruiseFuncsReturned =>
          /\ trace = cfOrder
          /\ \A printOK \in BOOLEAN :
                LET r == objCon(script, backend, funcs, printOK, buffers)
                    q == objCon(script, backend, Flip(funcs), printOK, buffers)
                IN  /\ q.bufs = r.bufs
                    /\ q.out = r.out
                    /\ q.funcs = Flip(r.funcs)
                    /\ r.funcs["fail"] = funcs["fail"]
    /\ sensReturned => trace = csOrder

\* C8 as stated: no statement reads the value of a failure flag, and control
\* flow, returned dictionary and history appends are the same whether the
\* flag is set or clear.
C8_FlagNeverRead ==
    /\ "fail" \notin printed
    /\ NoReaction

\* C8 amended: the flags are read only to be printed; control flow, returned
\* dictionary and history appends are the same whether the flag is set or
\* clear.
C8_FlagOnlyPrinted ==
    /\ "fail" \in printed =>
          \/ InTrace("print_funcs")
          \/ InTrace("print_sens")
          \/ InTrace("objCon")
    /\ NoReaction

\* C8 witness: cruiseFuncs returned with the failure flag set, and printed it.
C8_Witness ==
    /\ cruiseFuncsReturned
    /\ funcs["fail"]
    /\ "fail" \in printed

\* the declarations of a complete optimization problem, in order
AllDeclarations ==
    <<"obj", "alpha_fc", "upper_shape", "lower_shape",
      "DVCon1_volume_constraint_0", "DVCon1_thickness_constraints_0",
      "DVCon1_leradius_constraints_0", "cl_con_fc", "cm_con_fc",
      "first_cst_coeff_match">>

\* C9: an optimization problem is handed to the optimizer with all its
\* declarations made, it is handed over at most once (each backend run has a
\* new one), and once handed over its declarations never change.
C9_WriteOnce ==
    /\ [](\A i \in DOMAIN optProbs :
             /\ optProbs[i].runs <= 1
             /\ optProbs[i].runs = 1 => optProbs[i].decls = AllDeclarations
             /\ run = "running" => optProbs[optProb].runs = 1)
    /\ [][\A i \in DOMAIN optProbs :
             optProbs[i].runs >= 1 =>
                 /\ i \in DOMAIN optProbs'
                 /\ optProbs'[i].decls = optProbs[i].decls]_vars

\* C9 witness: the third backend of the COMBO script runs on the third
\* optimization problem, the first two having been handed over before.
C9_Witness ==
    /\ script = "497project_COMBO"
    /\ sec = 3 /\ run = "running"
    /\ optProb = 3 /\ Len(optProbs) = 3
    /\ optProbs[1].runs = 1 /\ optProbs[2].runs = 1

\* C10: first_cst_coeff_match has the value upper_shape[0] + lower_shape[0]
\* for any design vector (Jacobian row 1,0,0,0 for each group, nCoeff = 4),
\* its bounds are 0 and 0, and it is met exactly when the two first
\* coefficients add to zero; no other coefficient and no angle of attack
\* contributes.
C10_FirstCoeffMatch ==
    linCon.set =>
        /\ linCon.value = x.upper_shape[1] + x.lower_shape[1]
        /\ linCon.feasible <=> (x.upper_shape[1] + x.lower_shape[1] = 0)
        /\ first_cst_coeff_match.lower = 0
        /\ first_cst_coeff_match.upper = 0
        /\ nCoeff = 4
        /\ first_cst_coeff_match.jac["upper_shape"] = <<1, 0, 0, 0>>
        /\ first_cst_coeff_match.jac["lower_shape"] = <<1, 0, 0, 0>>

\* C10 witness: the constraint is met by a design whose other coefficients
\* and angle of attack are not zero.
C10_Witness ==
    /\ linCon.set /\ linCon.feasible
    /\ x.upper_shape[1] = 1 /\ x.lower_shape[1] = 0 - 1
    /\ x.upper_shape[2] = 1 /\ x.lower_shape[3] = 1
    /\ x.alpha = alphaUpper

\* the entries objCon adds to the dictionary
objConKeys == {"obj", clConName, cmConName}

\* C11: objCon returns the dictionary it was given, augmented: the keys are
\* those it had plus "obj", "cl_con_fc" and "cm_con_fc", every other entry
\* (cl, cd, cm and the failure flag among them) keeps its value, and the
\* returned dictionary and the history lists are the same for printOK true
\* and false.
C11_AugmentedOnly ==
    [][(cruiseFuncsReturned /\ who' = "none") =>
          /\ DOMAIN funcs' = (DOMAIN funcs) \cup objConKeys
          /\ \A k \in (DOMAIN funcs) \ objConKeys : funcs'[k] = funcs[k]
          /\ hist'[backend] = Append(hist[backend], funcs')
          /\ \A p \in BOOLEAN :
                /\ objCon(script, backend, funcs, p, buffers).funcs = funcs'
                /\ objCon(script, backend, funcs, p, buffers).bufs = buffers'
      ]_vars

\* C11 witness: objCon of the CONMIN section returned without printing a
\* dictionary whose failure flag is set.
C11_Witness ==
    /\ script = "497project_COMBO" /\ backend = "CONMIN"
    /\ who = "none" /\ Len(trace) > 0 /\ trace[Len(trace)] = "objCon"
    /\ Has(funcs, "obj") /\ funcs["fail"]
    /\ "obj" \notin printed

HasAlphaDV == \E d \in ap.dvs : d.name = "alpha"

InSeq(e, q) == \E i \in DOMAIN q : q[i] = e

\* C12: for any target lift coefficient, the aero problem's initial angle of
\* attack is 0 when the target is 0 and 1 otherwise, the angle of attack is a
\* design variable (value ap.alpha, bounds -10 and 10) exactly when the target
\* is not 0, and it is declared to the optimizer exactly then.
C12_AlphaIffLift ==
    pc > 1 =>
        /\ ap.alpha = (IF cl_target = 0 THEN 0 ELSE 1)
        /\ HasAlphaDV <=> (cl_target # 0)
        /\ \A d \in ap.dvs :
              /\ d.name = "alpha" /\ d.value = ap.alpha
              /\ d.lower = 0 - 10 /\ d.upper = 10
        /\ stmt = "opt" =>
              /\ InSeq("alpha_fc", optProbs[optProb].decls) <=> (cl_target # 0)
              /\ InSeq("upper_shape", optProbs[optProb].decls)
              /\ InSeq("lower_shape", optProbs[optProb].decls)

\* C12 witness: with a target of 0 the problem is ready for the optimizer with
\* the shape coefficients as its only variables.
C12_Witness ==
    /\ cl_target = 0
    /\ stmt = "opt"
    /\ ap.alpha = 0 /\ ap.dvs = {}
    /\ ~InSeq("alpha_fc", optProbs[optProb].decls)
    /\ InSeq("upper_shape", optProbs[optProb].decls)

\* the dictionary the latest objective evaluation of this run handed back
LastEval == hist[backend][Len(hist[backend])]

\* C13: cruiseFuncsSens neither applies x nor solves the flow again: while it
\* runs, the geometry, the aero problem, the flow solution and the funcs
\* dictionary stay as they are, and the sensitivities it returns are taken at
\* the design the latest cruiseFuncs call applied and solved, so they are those
\* of the argument x only when that call had the same x.
C13_SensAtSolvedDesign ==
    /\ [](sensReturned =>
            /\ Len(hist[backend]) > 0
            /\ flow.solved /\ flow.x = geo /\ flow.x = ap.x
            /\ \A k \in CFDKeys :
                  /\ Has(funcsSens, k)
                  /\ funcsSens[k] = flow.x
                  /\ (funcsSens[k] = x) <=> (x = geo)
            /\ \A k \in DVConKeys : Has(funcsSens, k) /\ funcsSens[k] = geo
            /\ LastEval[apKey("cl")] = FlowCoefficients(funcsSens[apKey("cl")]).cl
            /\ LastEval[apKey("cd")] = FlowCoefficients(funcsSens[apKey("cd")]).cd
            /\ LastEval[apKey("cm")] = FlowCoefficients(funcsSens[apKey("cm")]).cm)
    /\ [][who = "sens" =>
            /\ geo' = geo /\ ap' = ap /\ funcs' = funcs
            /\ flow'.x = flow.x /\ flow'.cl = flow.cl
            /\ flow'.cd = flow.cd /\ flow'.cm = flow.cm
         ]_vars

\* C13 witness: sensitivities were returned for a call whose x is not the
\* design the latest cruiseFuncs call solved.
C13_Witness ==
    /\ sensReturned
    /\ x # flow.x
    /\ x \in TrialPoints
    /\ funcsSens[apKey("cd")] = geo

\* the sections of the COMBO script before and after the current one
Earlier == {Sections(script)[i] : i \in 1..(sec - 1)}

Later == {Sections(script)[i] : i \in (sec + 1)..Len(Sections(script))}

\* C14: the three optimizer runs of the COMBO script happen in source order,
\* SLSQP, CONMIN, IPOPT, one run each; a step changes a history list only by
\* objCon appending one value to a list of the section then running, so the
\* lists of the other sections, and those of a finished section up to and
\* through the plotting, stay as they were.
C14_OwnBuffersOnly ==
    /\ [](script = "497project_COMBO" =>
            /\ Sections(script) = <<"SLSQP", "CONMIN", "IPOPT">>
            /\ Len(optProbs) <= sec
            /\ \A i \in DOMAIN optProbs :
                  /\ i < sec => optProbs[i].runs = 1
                  /\ optProbs[i].runs <= 1
            /\ run = "running" => optProb = sec /\ optProbs[sec].runs = 1
            /\ \A b \in Later :
                  /\ hist[b] = <<>>
                  /\ BufferNames(script, b) \cap DOMAIN buffers = {})
    /\ [][script = "497project_COMBO" =>
            /\ sec' # sec =>
                  /\ sec' = sec + 1 /\ run = "idle"
                  /\ optProbs[sec].runs = 1
            /\ \A n \in DOMAIN buffers :
                  /\ n \in DOMAIN buffers'
                  /\ buffers'[n] # buffers[n] =>
                        /\ n \in BufferNames(script, backend)
                        /\ cruiseFuncsReturned /\ run = "running"
                        /\ Len(buffers'[n]) = Len(buffers[n]) + 1
            /\ \A b \in Earlier :
                  /\ hist'[b] = hist[b]
                  /\ \A n \in BufferNames(script, b) : buffers'[n] = buffers[n]
            /\ pc \in {pcPlot, pcDone} => buffers' = buffers
         ]_vars

\* C14 witness: the COMBO script has plotted; IPOPT recorded one evaluation
\* in its own lists, SLSQP's lists hold the one evaluation of its earlier run
\* and CONMIN's lists hold none.
C14_Witness ==
    /\ script = "497project_COMBO" /\ pc = pcDone
    /\ \A n \in BufferNames(script, "IPOPT") : Len(buffers[n]) = 1
    /\ \A n \in BufferNames(script, "SLSQP") : Len(buffers[n]) = 1
    /\ \A n \in BufferNames(script, "CONMIN") : buffers[n] = <<>>
    /\ Len(hist["IPOPT"]) = 1 /\ Len(hist["SLSQP"]) = 1

(* ---- objCon on its own: any dictionary over the functionals ---- *)

\* dictionaries holding some of the entries cruiseFuncs writes for a trial point
PartialFuncs ==
    {[k \in K |->
        CASE k = apKey("cl") -> FlowCoefficients(tp).cl
          [] k = apKey("cd") -> FlowCoefficients(tp).cd
          [] k = apKey("cm") -> FlowCoefficients(tp).cm
          [] k = "fail" -> FALSE] :
       K \in SUBSET (CFDKeys \cup {"fail"}), tp \in TrialPoints}

\* the optimizer of some section is running; the earlier sections are done
InitObjCon ==
    /\ script \in Scripts
    /\ cl_target = mycl
    /\ rank \in Ranks
    /\ sec \in 1..Len(Sections(script))
    /\ pc = pcOpt
    /\ run = "running"
    /\ ap = [name |-> apName, alpha |-> alpha, dvs |-> apDVs(mycl, alpha),
             x |-> InitialDesign]
    /\ geo = InitialDesign
    /\ optProbs = [i \in 1..sec |-> [decls |-> AllDeclarations, runs |-> 1]]
    /\ optProb = sec
    /\ buffers = [n \in UNION {BufferNames(script, Sections(script)[i]) :
                                  i \in 1..sec} |-> <<>>]
    /\ iters = [b \in Backends |-> 0]
    /\ evals = 0
    /\ sensDone = FALSE
    /\ who = "none"
    /\ cb = 0
    /\ x = InitialDesign
    /\ flow = NoFlow
    /\ funcs = EmptyDict
    /\ funcsSens = EmptyDict
    /\ trace = <<>>
    /\ printed = {}
    /\ hist = [b \in Backends |-> <<>>]
    /\ linCon = NoLinCon

\* MP.obj(x) is about to hand objCon a dictionary
CallObjReturning ==
    /\ run = "running" /\ who = "none"
    /\ SumLen(hist, Backends) < MaxCalls
    /\ x' \in TrialPoints
    /\ funcs' \in PartialFuncs
    /\ who' = "obj"
    /\ cb' = Len(cfOrder) + 1
    /\ trace' = cfOrder
    /\ printed' = {}
    /\ UNCHANGED <<scriptVars, sec, pc, run, setupVars, buffers, solverVars,
                   flow, funcsSens, hist, linCon>>

NextObjCon ==
    \/ CallObjReturning
    \/ MPobj_objCon

SpecObjCon == InitObjCon /\ [][NextObjCon]_vars

\* C15: objCon looks up cd, cl and cm before its first append: called with a
\* dictionary lacking any of them it raises with every history list as it
\* was, so the lists of the section keep equal lengths; with all three present
\* it does not raise (the later look-up of fc_cd included) and every list of
\* the section grows by one.
C15_LookupsBeforeAppends ==
    [][(cruiseFuncsReturned /\ who' = "none") =>
          LET missing == ~(CFDKeys \subseteq DOMAIN funcs)
          IN  /\ (run' = "raised") <=> missing
              /\ missing => (buffers' = buffers /\ hist' = hist)
              /\ ~missing =>
                    \A n \in BufferNames(script, backend) :
                        Len(buffers'[n]) = Len(buffers[n]) + 1
              /\ \A n, m \in BufferNames(script, backend) :
                    Len(buffers'[n]) = Len(buffers'[m])
      ]_vars

\* C15 witness: after one recorded evaluation objCon raised on a dictionary
\* holding cd and cl but not cm; obj and the lift residual were written, and
\* every list of the section still holds the one value.
C15_Witness ==
    /\ run = "raised"
    /\ script = "497project_COMBO"
    /\ Has(funcs, "obj") /\ Has(funcs, clConName)
    /\ ~Has(funcs, apKey("cm")) /\ ~Has(funcs, cmConName)
    /\ \A n \in BufferNames(script, backend) : Len(buffers[n]) = 1

====
